---- MODULE Spec2Model ----
(***************************************************************************)
(* A model of src/pipeline.py: the Pipeline base class with its camera     *)
(* calibration (calibrate, calibrate_camera), distortion correction        *)
(* (correct_distortion) and debug compositor (debug_pipeline).             *)
(*                                                                         *)
(* The vision library and the file system are the environment:             *)
(*   - a calibration image file is "board" (decodes, corners are found),   *)
(*     "nocorners" (decodes, no corners found) or "unreadable" (cv2.imread *)
(*     returns None);                                                      *)
(*   - the calibration file is absent, unreadable, corrupt, or a pickled   *)
(*     dict with some of the keys dist_mtx / dist_dist, and independently  *)
(*     of that it can or cannot be opened for writing (its permissions, a  *)
(*     directory at its path, a missing or read-only results directory).  *)
(*     A file that cannot be opened for reading stays so when it is        *)
(*     written: what it holds is not observable by the program.  A file    *)
(*     the save creates gets its permissions from the umask, and the       *)
(*     bytes of a save reach the file or are lost (full disk, file size    *)
(*     limit);                                                             *)
(*   - the solver's numerical result is any pair of values;                *)
(*   - the pipeline method debug_pipeline calls is the base class's, which *)
(*     does not take the debug_all keyword, or a subclass's override.      *)
(***************************************************************************)
EXTENDS Integers, Sequences, FiniteSets

\* ---------------------------------------------------------------- bounds
MaxImages == 2
NumVals == 2
MaxDim == 2
MaxEntries == 2

\* ------------------------------------------------------------ vocabulary
None == 0
Vals == 1..NumVals
FileKinds == {"board", "nocorners", "unreadable"}
FieldNames == {"dist_mtx", "dist_dist"}

ImageLists == UNION {[1..n -> FileKinds] : n \in 0..MaxImages}
NoImages == [none |-> TRUE, files |-> <<>>]
ImageArgs == {NoImages} \cup {[none |-> FALSE, files |-> fs] : fs \in ImageLists}

Records == UNION {[S -> Vals] : S \in SUBSET FieldNames}
CalFiles ==
  {[kind |-> k, rec |-> <<>>, writable |-> w] :
     k \in {"absent", "unreadable", "corrupt"}, w \in BOOLEAN}
  \cup {[kind |-> "record", rec |-> r, writable |-> w] : r \in Records, w \in BOOLEAN}
AbsentFile == [kind |-> "absent", rec |-> <<>>, writable |-> TRUE]
Solutions == [mtx : Vals, dist : Vals]
\* what the file system does with one save: whether the buffered bytes reach
\* the file, and the permissions a newly created file gets
Disks == [flushed : BOOLEAN, readable : BOOLEAN, writable : BOOLEAN]

VARIABLES dist_mtx, dist_dist, cal_file, last, imgs, output
vars == <<dist_mtx, dist_dist, cal_file, last, imgs, output>>
calVars == <<dist_mtx, dist_dist, cal_file, last>>
dbgVars == <<imgs, output>>

\* ------------------------------------------------- one call's local state
\* The instance fields and the store as the call sees them, the exception it
\* ends with, and what it has done so far: calls of findChessboardCorners
\* (detect), calibrateCamera (solver) and undistort (undist), writes of the
\* two fields and of the store, the 0-based indices of the images whose points
\* were appended to objpoints / imgpoints, the 1-based position of the image
\* that gave img_shape, and the debug files written.  The board geometry
\* (x, y) only parameterises the detection, whose outcome is the file's kind.
NewCall(mtx, dist, store) ==
  [dist_mtx |-> mtx, dist_dist |-> dist, cal_file |-> store,
   exc |-> "none", path |-> "none",
   detect |-> 0, solver |-> 0, undist |-> 0,
   mtxW |-> 0, distW |-> 0, storeW |-> 0,
   objpoints |-> <<>>, img_shape |-> None, artifacts |-> {}]

Raise(cs, e) == [cs EXCEPT !.exc = e]

\* cv2.imread: None for a file it cannot decode, the image otherwise
imread(fname) == IF fname = "unreadable" THEN "None" ELSE "image"

\* cv2.findChessboardCorners on a decoded file
findChessboardCorners(fname) == fname = "board"

\* ------------------------------------------------------ correct_distortion
\* mutant: the assertion on dist_dist is missing
correct_distortion_one_assert(cs, img) ==
  IF cs.dist_mtx = None THEN Raise(cs, "AssertionError")
  ELSE IF img = "None" THEN Raise(cs, "AssertionError")
  ELSE [cs EXCEPT !.undist = @ + 1]

correct_distortion(cs, img) ==
  IF cs.dist_mtx = None THEN Raise(cs, "AssertionError")
  ELSE IF cs.dist_dist = None THEN Raise(cs, "AssertionError")
  ELSE IF img = "None" THEN Raise(cs, "AssertionError")
  ELSE [cs EXCEPT !.undist = @ + 1]

\* -------------------------------------------------------- undistort_images
RECURSIVE undistort_loop(_, _, _)
undistort_loop(cs, files, i) ==
  IF i > Len(files) THEN cs
  ELSE LET c1 == correct_distortion(cs, imread(files[i])) IN
       IF c1.exc # "none" THEN c1
       ELSE undistort_loop([c1 EXCEPT !.artifacts = @ \cup {<<"undistort", i - 1>>}],
                           files, i + 1)

undistort_images(cs, debug, images) ==
  IF ~debug THEN cs
  ELSE IF images.none THEN Raise(cs, "TypeError")
  ELSE undistort_loop(cs, images.files, 1)

\* ------------------------------------------------------- calibration store
pickle_load(f) ==
  CASE f.kind = "absent" -> [exc |-> "IOError", data |-> <<>>]
    [] f.kind = "unreadable" -> [exc |-> "IOError", data |-> <<>>]
    [] f.kind = "corrupt" -> [exc |-> "UnpicklingError", data |-> <<>>]
    [] f.kind = "record" -> [exc |-> "none", data |-> f.rec]

\* pickle.dump(cal_data, open(self.cal_file, "wb")).  open raises an OSError
\* (PermissionError, IsADirectoryError, FileNotFoundError) when the file
\* cannot be opened for writing, and the store is then left as it was.
\* Otherwise open creates the file, with the umask's permissions, or empties
\* the existing one, whose permissions stay; the record goes to the file
\* object's buffer and the statement ends.  The file object is never closed:
\* its finalisation writes the buffer out, and an error of that write is
\* discarded, leaving the file empty.  A file that cannot be opened for
\* reading hides what it holds.
pickle_dump(cs, disk) ==
  LET f == cs.cal_file
      r == IF f.kind = "absent" THEN disk.readable ELSE f.kind # "unreadable"
      w == IF f.kind = "absent" THEN disk.writable ELSE TRUE
      rec == [k \in FieldNames |->
                IF k = "dist_mtx" THEN cs.dist_mtx ELSE cs.dist_dist]
  IN IF ~f.writable THEN Raise(cs, "IOError")
     ELSE [cs EXCEPT !.storeW = @ + 1,
                     !.cal_file =
                        IF ~r THEN [kind |-> "unreadable", rec |-> <<>>, writable |-> w]
                        ELSE IF disk.flushed
                        THEN [kind |-> "record", rec |-> rec, writable |-> w]
                        ELSE [kind |-> "corrupt", rec |-> <<>>, writable |-> w]]

\* the try block of calibrate_camera
read_calibration(cs, debug, images) ==
  LET ld == pickle_load(cs.cal_file) IN
  IF ld.exc # "none" THEN Raise(cs, ld.exc)
  ELSE IF "dist_mtx" \notin DOMAIN ld.data THEN Raise(cs, "KeyError")
  ELSE LET c1 == [cs EXCEPT !.dist_mtx = ld.data["dist_mtx"], !.mtxW = @ + 1] IN
       IF "dist_dist" \notin DOMAIN ld.data THEN Raise(c1, "KeyError")
       ELSE LET c2 == [c1 EXCEPT !.dist_dist = ld.data["dist_dist"], !.distW = @ + 1]
            IN undistort_images([c2 EXCEPT !.path = "cached"], debug, images)

\* ---------------------------------------------------------- detection loop
\* mutant: the points are accumulated whether or not corners were found
detect_step_always(cs, fname, idx, debug) ==
  IF imread(fname) = "None" THEN Raise(cs, "cv2.error")
  ELSE [cs EXCEPT !.detect = @ + 1, !.objpoints = Append(@, idx),
                  !.img_shape = IF @ = None THEN idx + 1 ELSE @,
                  !.artifacts = IF debug THEN @ \cup {<<"corners_found", idx>>}
                                 ELSE @]

\* one iteration of the loop over the images
detect_step(cs, fname, idx, debug) ==
  IF imread(fname) = "None" THEN Raise(cs, "cv2.error")
  ELSE LET c1 == [cs EXCEPT !.detect = @ + 1,
                            !.img_shape = IF @ = None THEN idx + 1 ELSE @] IN
       IF findChessboardCorners(fname)
       THEN [c1 EXCEPT !.objpoints = Append(@, idx),
                       !.artifacts = IF debug THEN @ \cup {<<"corners_found", idx>>}
                                      ELSE @]
       ELSE c1

RECURSIVE detect_loop(_, _, _, _)
detect_loop(cs, files, debug, i) ==
  IF i > Len(files) THEN cs
  ELSE LET c1 == detect_step(cs, files[i], i - 1, debug) IN
       IF c1.exc # "none" THEN c1
       ELSE detect_loop(c1, files, debug, i + 1)

\* cv2.calibrateCamera and the assignment of its result
calibrateCamera(cs, solved) ==
  LET c1 == [cs EXCEPT !.solver = @ + 1] IN
  IF c1.objpoints = <<>> THEN Raise(c1, "cv2.error")
  ELSE [c1 EXCEPT !.dist_mtx = solved.mtx, !.mtxW = @ + 1,
                  !.dist_dist = solved.dist, !.distW = @ + 1]

full_calibration(cs, images, debug, solved, disk) ==
  LET c0 == [cs EXCEPT !.path = "recompute"] IN
  IF images.none \/ Len(images.files) = 0 THEN Raise(c0, "AssertionError")
  ELSE LET c1 == detect_loop(c0, images.files, debug, 1) IN
       IF c1.exc # "none" THEN c1
       ELSE LET c2 == calibrateCamera(c1, solved) IN
            IF c2.exc # "none" THEN c2
            ELSE LET c3 == undistort_images(c2, debug, images) IN
                 IF c3.exc # "none" THEN c3
                 ELSE pickle_dump(c3, disk)

\* mutant: the return after a successful load is missing
calibrate_camera_no_return(cs, images, debug, read_cal, solved, disk) ==
  LET tried == IF read_cal THEN read_calibration(cs, debug, images) ELSE cs IN
  IF read_cal /\ tried.exc \notin {"none", "IOError", "KeyError"} THEN tried
  ELSE full_calibration(Raise(tried, "none"), images, debug, solved, disk)

calibrate_camera(cs, images, debug, read_cal, solved, disk) ==
  LET tried == IF read_cal THEN read_calibration(cs, debug, images) ELSE cs IN
  IF read_cal /\ tried.exc \notin {"IOError", "KeyError"} THEN tried
  ELSE full_calibration(Raise(tried, "none"), images, debug, solved, disk)


\* ---------------------------------------------------------- debug_pipeline
\* Stage names are strings; a string is its sequence of character codes, so
\* that sorted() can be computed.  "edges" < "fin" < "final" < "warped".
edges == <<101, 100, 103, 101, 115>>
fin == <<102, 105, 110>>
final == <<102, 105, 110, 97, 108>>
warped == <<119, 97, 114, 112, 101, 100>>
Keys == {edges, fin, final, warped}

\* An image is its shape (h rows, w columns, ndim = 2 for grayscale and 3 for
\* three channels) and its content: pixel (r, c, ch) holds base + 16r + 4c + ch,
\* or base + 16r + 4c in every channel when mono.
Bases == {0, 100}
Images ==
  {im \in [h : 1..MaxDim, w : 1..MaxDim, ndim : {2, 3}, mono : BOOLEAN, base : Bases] :
     im.mono <=> (im.ndim = 2)}
DebugMaps ==
  UNION {[S -> Images] : S \in {T \in SUBSET Keys : Cardinality(T) \in 1..MaxEntries}}

\* What self.pipeline is on the instance debug_pipeline is called on: the
\* base class's method or an override with the same signature (self, img),
\* an override that accepts debug_all and raises as the base body does, or
\* an override that accepts debug_all and returns a map of stage images.
Overrides ==
  {[kind |-> k, map |-> <<>>] : k \in {"base", "declared", "raises"}}
  \cup {[kind |-> "returns", map |-> m] : m \in DebugMaps}

Pixel(im, r, c, ch) == im.base + 16 * r + 4 * c + (IF im.mono THEN 0 ELSE ch)

\* cv2.cvtColor(img, cv2.COLOR_GRAY2RGB): the gray value in each channel
cvtColor(im) == [im EXCEPT !.ndim = 3]

\* str comparison: the first differing character decides, a proper prefix
\* is smaller
LexLess(a, b) ==
  \/ /\ Len(a) < Len(b)
     /\ \A j \in 1..Len(a) : a[j] = b[j]
  \/ \E j \in 1..Len(a) :
       /\ j <= Len(b)
       /\ a[j] < b[j]
       /\ \A n \in 1..(j - 1) : a[n] = b[n]

RECURSIVE sorted(_)
sorted(S) ==
  IF S = {} THEN <<>>
  ELSE LET m == CHOOSE x \in S : \A y \in S \ {x} : LexLess(x, y)
       IN <<m>> \o sorted(S \ {m})

\* no map and no canvas: debug_pipeline is not running
EmptyImgs == <<>>
NoOutput == [exc |-> "idle", rows |-> 0, cols |-> 0, canvas |-> <<>>]

Cells(rows, cols) == (0..(rows - 1)) \X (0..(cols - 1)) \X (0..2)

Min(a, b) == IF a < b THEN a ELSE b

\* np.zeros((shape[0] * scale, shape[1], 3))
zeros(rows, cols) ==
  [exc |-> "none", rows |-> rows, cols |-> cols,
   canvas |-> [p \in Cells(rows, cols) |-> 0]]

\* mutant: the bands start at the top of the canvas
band_start_from_zero(i, H) == (i - 1) * H

\* first row of the band of the i-th entry
band_start(i, H) == i * H

\* output[i*H : (i+1)*H - (H - h), 0:w, :] = im  (numpy slicing: bounds are
\* clipped to the canvas, the value must broadcast to the selected block)
place(out, im, i, H) ==
  LET lo == Min(band_start(i, H), out.rows)
      hi == Min(band_start(i + 1, H) - (H - im.h), out.rows)
      nr == IF hi > lo THEN hi - lo ELSE 0
      nc == Min(im.w, out.cols)
      cv == out.canvas
  IN IF ~((im.h = nr \/ im.h = 1) /\ (im.w = nc \/ im.w = 1))
     THEN [out EXCEPT !.exc = "ValueError"]
     ELSE [out EXCEPT !.canvas =
             [p \in DOMAIN cv |->
                IF p[1] >= lo /\ p[1] < lo + nr /\ p[2] < nc
                THEN Pixel(im, IF im.h = 1 THEN 0 ELSE p[1] - lo,
                               IF im.w = 1 THEN 0 ELSE p[2], p[3])
                ELSE cv[p]]]

RECURSIVE compose_loop(_, _, _, _)
compose_loop(st, keys, i, H) ==
  IF i > Len(keys) THEN st
  ELSE LET k == keys[i]
           im == IF st.imgs[k].ndim = 2 THEN cvtColor(st.imgs[k]) ELSE st.imgs[k]
           m1 == [st.imgs EXCEPT ![k] = im]
           o1 == place(st.out, im, i, H)
       IN IF o1.exc # "none" THEN [imgs |-> m1, out |-> o1]
          ELSE compose_loop([imgs |-> m1, out |-> o1], keys, i + 1, H)

\* self.pipeline(img, debug_all=True): the method declared as
\* pipeline(self, img) does not take the keyword and the call raises
\* TypeError before its body runs
pipeline(impl) ==
  CASE impl.kind \in {"base", "declared"} -> [exc |-> "TypeError", map |-> EmptyImgs]
    [] impl.kind = "raises" -> [exc |-> "NotImplementedError", map |-> EmptyImgs]
    [] impl.kind = "returns" -> [exc |-> "none", map |-> impl.map]

\* debug_pipeline on an instance whose pipeline method is impl
debug_pipeline(impl) ==
  LET got == pipeline(impl)
      m == got.map
  IN IF got.exc # "none"
     THEN [imgs |-> EmptyImgs, out |-> [NoOutput EXCEPT !.exc = got.exc]]
     ELSE IF final \notin DOMAIN m
     THEN [imgs |-> m, out |-> [NoOutput EXCEPT !.exc = "KeyError"]]
     ELSE LET H == m[final].h
              W == m[final].w
              scale == Cardinality(DOMAIN m) + 1
          IN compose_loop([imgs |-> m, out |-> zeros(H * scale, W)],
                          sorted(DOMAIN m), 1, H)

\* ------------------------------------------------------------ the instance
CalOps == {"calibrate", "calibrate_camera"}

\* the record of the call in progress on the pipeline: its arguments, the
\* instance and store before it, and the call's final local state
Observe(op, images, debug, read_cal, img, pre, follows, res) ==
  [op |-> op, images |-> images, debug |-> debug, read_cal |-> read_cal,
   img |-> img, pre |-> pre, follows |-> follows, res |-> res]

\* the most recent method call completed the full recomputation (a fresh
\* instance constructed since then does not change that)
Saved(l) ==
  IF l.op \in {"idle", "__init__"} THEN l.follows
  ELSE l.op \in CalOps /\ l.res.path = "recompute" /\ l.res.exc = "none"

\* no call in progress: control is with the caller
Idle(follows) ==
  Observe("idle", NoImages, FALSE, FALSE, "None",
          NewCall(None, None, AbsentFile), follows,
          NewCall(None, None, AbsentFile))

Init ==
  /\ dist_mtx = None
  /\ dist_dist = None
  /\ cal_file \in CalFiles
  /\ last = Idle(FALSE)
  /\ imgs = EmptyImgs
  /\ output = NoOutput

\* Pipeline(): a fresh instance over the same results directory
New ==
  /\ last.op = "idle"
  /\ dist_mtx' = None
  /\ dist_dist' = None
  /\ last' = Observe("__init__", NoImages, FALSE, FALSE, "None",
                     NewCall(dist_mtx, dist_dist, cal_file), Saved(last),
                     NewCall(None, None, cal_file))
  /\ UNCHANGED <<cal_file, imgs, output>>

Run(op, images, debug, read_cal, solved, disk) ==
  LET pre == NewCall(dist_mtx, dist_dist, cal_file)
      res == calibrate_camera(pre, images, debug, read_cal, solved, disk)
  IN /\ dist_mtx' = res.dist_mtx
     /\ dist_dist' = res.dist_dist
     /\ cal_file' = res.cal_file
     /\ last' = Observe(op, images, debug, read_cal, "None", pre, Saved(last), res)
     /\ UNCHANGED <<imgs, output>>

\* The solver's result and the file system's handling of the save are drawn
\* only for a call that gets as far as using them: the others end the same
\* whatever these would have been.
Draws(images, debug, read_cal) ==
  LET s0 == CHOOSE s \in Solutions : TRUE
      d0 == [flushed |-> TRUE, readable |-> TRUE, writable |-> TRUE]
      probe == calibrate_camera(NewCall(dist_mtx, dist_dist, cal_file),
                                images, debug, read_cal, s0, d0)
  IN [solved : IF probe.solver = 1 /\ probe.objpoints # <<>> THEN Solutions ELSE {s0},
      disk : IF probe.storeW = 0 \/ cal_file.kind = "unreadable" THEN {d0}
             ELSE IF cal_file.kind = "absent" THEN Disks
             ELSE {d \in Disks : d.readable /\ d.writable}]

\* calibrate: the image list is whatever glob finds in camera_cal
Calibrate ==
  /\ last.op = "idle"
  /\ \E files \in ImageLists, debug \in BOOLEAN, read_cal \in BOOLEAN :
       \E env \in Draws([none |-> FALSE, files |-> files], debug, read_cal) :
         Run("calibrate", [none |-> FALSE, files |-> files], debug, read_cal,
             env.solved, env.disk)

CalibrateCamera ==
  /\ last.op = "idle"
  /\ \E images \in ImageArgs, debug \in BOOLEAN, read_cal \in BOOLEAN :
       \E env \in Draws(images, debug, read_cal) :
         Run("calibrate_camera", images, debug, read_cal, env.solved, env.disk)

CorrectDistortion ==
  \E img \in {"None", "image"} :
    LET pre == NewCall(dist_mtx, dist_dist, cal_file)
        res == correct_distortion(pre, img)
    IN /\ last.op = "idle"
       /\ dist_mtx' = res.dist_mtx
       /\ dist_dist' = res.dist_dist
       /\ cal_file' = res.cal_file
       /\ last' = Observe("correct_distortion", NoImages, FALSE, FALSE, img,
                          pre, Saved(last), res)
       /\ UNCHANGED <<imgs, output>>

\* the call returns (or its exception reaches the caller)
Return ==
  /\ last.op # "idle"
  /\ last' = Idle(Saved(last))
  /\ UNCHANGED <<dist_mtx, dist_dist, cal_file, imgs, output>>

Next == New \/ Calibrate \/ CalibrateCamera \/ CorrectDistortion \/ Return

Spec == Init /\ [][Next]_vars

\* ------------------------------------------- the debug compositor on its own
\* debug_pipeline reads and writes nothing of the calibration state, so it is
\* explored from a fresh instance.
InitDbg ==
  /\ dist_mtx = None
  /\ dist_dist = None
  /\ cal_file = AbsentFile
  /\ last = Idle(FALSE)
  /\ imgs = EmptyImgs
  /\ output = NoOutput

DebugPipeline ==
  /\ output.exc = "idle"
  /\ \E impl \in Overrides :
       LET r == debug_pipeline(impl) IN
       /\ imgs' = r.imgs
       /\ output' = r.out
  /\ UNCHANGED calVars

\* the canvas (or the exception) has been handed to the caller
ReturnDbg ==
  /\ output.exc # "idle"
  /\ imgs' = EmptyImgs
  /\ output' = NoOutput
  /\ UNCHANGED calVars

NextDbg == DebugPipeline \/ ReturnDbg

SpecDbg == InitDbg /\ [][NextDbg]_vars


\* ================================================================= claims
IsCal == last.op \in CalOps
ValidRecord(f) == f.kind = "record" /\ DOMAIN f.rec = FieldNames
FullPath == IsCal /\ last.res.path = "recompute"
Files == last.images.files
BoardIdx == {i - 1 : i \in {j \in 1..Len(Files) : Files[j] = "board"}}
ReadableIdx == {i - 1 : i \in {j \in 1..Len(Files) : Files[j] # "unreadable"}}

\* objpoints holds the given indices, each once, in increasing order
Accumulated(S) ==
  LET ps == last.res.objpoints IN
  /\ Len(ps) = Cardinality(S)
  /\ {ps[j] : j \in 1..Len(ps)} = S
  /\ \A j \in 1..(Len(ps) - 1) : ps[j] < ps[j + 1]

\* C1: a calibrate / calibrate_camera call with read_cal true that finds a
\* stored record with both fields never calls the corner detection nor the
\* solver, and ends with the active parameters equal to the stored record,
\* for every image list and debug flag.
C1_CacheHit ==
  (IsCal /\ last.read_cal /\ ValidRecord(last.pre.cal_file)) =>
     /\ last.res.detect = 0
     /\ last.res.solver = 0
     /\ dist_mtx = last.pre.cal_file.rec["dist_mtx"]
     /\ dist_dist = last.pre.cal_file.rec["dist_dist"]

C1_Witness ==
  /\ IsCal /\ last.read_cal /\ ValidRecord(last.pre.cal_file)
  /\ last.debug /\ ~last.images.none /\ Len(Files) >= 1
  /\ last.pre.dist_mtx # last.pre.cal_file.rec["dist_mtx"]
  /\ last.res.exc = "none"

\* C2: with read_cal true, whenever loading the store fails (absent,
\* unreadable, corrupt, or a record missing a field) the failure is not
\* raised to the caller and the call goes on into the full recomputation.
C2_CacheMissNotFatal ==
  (IsCal /\ last.read_cal /\ ~ValidRecord(last.pre.cal_file)) =>
     last.res.path = "recompute"

\* C3 as claimed: on the full recomputation path, for N >= 1 decodable images
\* of which any K have no detectable checkerboard, the call does not raise,
\* accumulates one pair for each of the other N-K images and none for the K,
\* runs the solver on them and completes.
C3_SkipOnFailureAnyK ==
  (FullPath /\ ~last.images.none /\ Len(Files) >= 1 /\ ReadableIdx = 0..(Len(Files) - 1)) =>
     /\ last.res.exc = "none"
     /\ last.res.detect = Len(Files)
     /\ Accumulated(BoardIdx)
     /\ last.res.solver = 1

\* C3 as amended: for every K < N the call raises nothing for the K failures,
\* accumulates one pair for each of the other N-K images and none for the K,
\* runs the solver on them, and returns without raising whenever the
\* calibration file can be opened for writing; when it cannot, the error of
\* the save's open reaches the caller.  When K = N the detection loop still
\* raises nothing and accumulates nothing, and it is the solver, called once
\* on the empty point lists, that fails.
C3_SkipOnFailure ==
  (FullPath /\ ~last.images.none /\ Len(Files) >= 1 /\ ReadableIdx = 0..(Len(Files) - 1)) =>
     /\ last.res.detect = Len(Files)
     /\ Accumulated(BoardIdx)
     /\ last.res.solver = 1
     /\ last.res.exc = IF BoardIdx = {} THEN "cv2.error"
                       ELSE IF last.pre.cal_file.writable THEN "none"
                       ELSE "IOError"

C3_Witness ==
  /\ FullPath /\ ~last.images.none /\ Len(Files) = 2
  /\ Files[1] = "nocorners" /\ Files[2] = "board"
  /\ last.res.exc = "none"
  /\ last.res.objpoints = <<1>>

\* C4: on the full recomputation path an image file that cannot be decoded is
\* skipped: detection runs on every other image, their points are
\* accumulated and the solver is reached; and the debug snapshot pass after
\* a successful load skips such a file too and undistorts every other image.
C4_UnreadableSkipped ==
  /\ (FullPath /\ ~last.images.none /\ ReadableIdx # 0..(Len(Files) - 1)) =>
        /\ last.res.detect = Cardinality(ReadableIdx)
        /\ Accumulated(BoardIdx)
        /\ last.res.solver = 1
  /\ (/\ IsCal /\ last.read_cal /\ ValidRecord(last.pre.cal_file)
      /\ last.debug /\ ~last.images.none) =>
        /\ last.res.exc = "none"
        /\ last.res.undist = Cardinality(ReadableIdx)

\* C5: the active parameters are both set or both unset, in every state.
C5_BothOrNeither == (dist_mtx = None) <=> (dist_dist = None)

\* C6: correct_distortion with an unset parameter or a null image fails with
\* an error without calling undistort; and every correct_distortion call
\* leaves the active parameters and the calibration store as they were.
C6_NotCalibrated ==
  (last.op = "correct_distortion") =>
     /\ (last.pre.dist_mtx = None \/ last.pre.dist_dist = None \/ last.img = "None")
          => (last.res.exc = "AssertionError" /\ last.res.undist = 0)
     /\ dist_mtx = last.pre.dist_mtx
     /\ dist_dist = last.pre.dist_dist
     /\ cal_file = last.pre.cal_file

C6_Witness ==
  /\ last.op = "correct_distortion"
  /\ last.pre.dist_mtx # None /\ last.pre.dist_dist = None
  /\ last.img = "image"
  /\ last.res.exc = "AssertionError"

\* C7: the full recomputation path with an empty or missing image list fails
\* with the invalid-input error before any detection or solver call, writes
\* nothing to the store and leaves the active parameters as they were.
C7_EmptyRejected ==
  (FullPath /\ (last.images.none \/ Len(Files) = 0)) =>
     /\ last.res.exc = "AssertionError"
     /\ last.res.detect = 0
     /\ last.res.solver = 0
     /\ last.res.storeW = 0
     /\ cal_file = last.pre.cal_file
     /\ dist_mtx = last.pre.dist_mtx
     /\ dist_dist = last.pre.dist_dist

\* C8: for a debug map with the key "final" of tile size (H, W) and n entries
\* each at most H by W, debug_pipeline returns a canvas of H*(n+1) rows, W
\* columns and 3 channels; rows [0, H) are zero; the entry at 1-based sorted
\* position p fills rows [p*H, p*H + h) and columns [0, w) with its pixels,
\* the rest of its band is zero, and no band holds another entry's pixels.
Pos(k) == 1 + Cardinality({j \in DOMAIN imgs : LexLess(j, k)})

C8_Layout ==
  (/\ output.exc # "idle"
   /\ final \in DOMAIN imgs
   /\ \A k \in DOMAIN imgs : imgs[k].h <= imgs[final].h /\ imgs[k].w <= imgs[final].w) =>
     LET H == imgs[final].h
         W == imgs[final].w
         n == Cardinality(DOMAIN imgs)
     IN /\ output.exc = "none"
        /\ output.rows = H * (n + 1)
        /\ output.cols = W
        /\ DOMAIN output.canvas = Cells(H * (n + 1), W)
        /\ \A p \in DOMAIN output.canvas :
             IF p[1] < H THEN output.canvas[p] = 0
             ELSE \E k \in DOMAIN imgs :
                    /\ Pos(k) * H <= p[1]
                    /\ p[1] < (Pos(k) + 1) * H
                    /\ output.canvas[p] =
                         IF p[1] - Pos(k) * H < imgs[k].h /\ p[2] < imgs[k].w
                         THEN Pixel(imgs[k], p[1] - Pos(k) * H, p[2], p[3])
                         ELSE 0

C8_Witness ==
  /\ output.exc = "none"
  /\ DOMAIN imgs = {edges, final}
  /\ imgs[final].h = 2 /\ imgs[final].w = 2 /\ ~imgs[final].mono
  /\ imgs[edges].h = 1 /\ imgs[edges].w = 1 /\ imgs[edges].mono
  /\ imgs[edges].base = 100
  /\ output.canvas[<<2, 0, 2>>] = 100
  /\ output.canvas[<<3, 0, 0>>] = 0

\* C9: after a calibrate_camera call that completes the full recomputation
\* the store holds a record of exactly the two fields, equal to the active
\* parameters just computed; and the next calibrate_camera call with read_cal
\* true, on the same or on a fresh instance, ends with the active parameters
\* equal field for field to the saved record.
C9_RoundTrip ==
  /\ (FullPath /\ last.res.exc = "none") =>
       /\ ValidRecord(cal_file)
       /\ cal_file.rec["dist_mtx"] = dist_mtx
       /\ cal_file.rec["dist_dist"] = dist_dist
       /\ dist_mtx # None /\ dist_dist # None
  /\ (IsCal /\ last.read_cal /\ last.follows) =>
       /\ ValidRecord(last.pre.cal_file)
       /\ dist_mtx = last.pre.cal_file.rec["dist_mtx"]
       /\ dist_dist = last.pre.cal_file.rec["dist_dist"]
       /\ cal_file = last.pre.cal_file

\* C10: within one calibrate_camera invocation, on every path, the active
\* parameters are written at most once.
C10_SingleWrite ==
  IsCal => (last.res.mtxW <= 1 /\ last.res.distW <= 1)

====
